---- MODULE Spec2Model ----
(***************************************************************************)
(* Alien Invasion Simulator (fcecin/ais): a model of simulate(), the map   *)
(* file parser and simulator, of generate() and of main().                 *)
(*                                                                         *)
(* Arrays are functions over 0..n-1 and -1 is "none", as in the source.    *)
(* An input line is the sequence of its space-separated items: the first   *)
(* item is a plain string (the city name), every other item is the tuple   *)
(* of the parts that "=" separates (<<"east", "B">> is the item east=B).   *)
(* The blank line is the empty sequence.                                   *)
(*                                                                         *)
(* One action is one iteration of a loop of simulate(), so every state is  *)
(* a point between two iterations; outcome is what the run printed last:   *)
(* "running", a loader error, "Panic", "WorldExhausted", "SimulatorBug" or *)
(* "Written". main() and generate() are one action each; args is os.Args   *)
(* without the program name and call is the function main() entered, with  *)
(* the arguments of generate().                                            *)
(***************************************************************************)
EXTENDS Integers, Sequences, FiniteSets, TLC

VARIABLES args, call, file, numaliens, pc, outcome, scanned, nodes, nodeMap,
          i, d, r, aliens, liveAlienCounter, result

vars == <<args, call, file, numaliens, pc, outcome, scanned, nodes, nodeMap,
          i, d, r, aliens, liveAlienCounter, result>>

(***************************************************************************)
(* Bounds of the model.                                                    *)
(***************************************************************************)
\* Largest number of road items of a generated input file.
MaxRoads == 2
\* Largest NUMALIENS argument.
MaxAliens == 4
\* The cap of the round loop (the literal 10000 of the source), scaled down.
MaxRounds == 2
\* Largest MAXX and MAXY of a generated grid.
MaxGrid == 2

(***************************************************************************)
(* Data model.                                                             *)
(***************************************************************************)
EAST == 0
SOUTH == 1
WEST == 2
NORTH == 3

\* len() of an array.
len(a) == Cardinality(DOMAIN a)

\* append(a, x).
append(a, x) == [k \in 0..len(a) |-> IF k < len(a) THEN a[k] ELSE x]

\* The SNode that the parser allocates for a new city.
NewNode(cityName, index) ==
    [index    |-> index,
     cityName |-> cityName,
     roads    |-> [dd \in 0..3 |-> -1],
     sroads   |-> [dd \in 0..3 |-> ""],
     dead     |-> FALSE,
     alienid  |-> -1]

(***************************************************************************)
(* Input files.                                                            *)
(***************************************************************************)
\* The city names of the generated input files: line k defines CityNames[k].
CityNames == <<"A", "B", "C">>

DirNames == [dd \in 0..3 |->
                CASE dd = EAST  -> "east"
                  [] dd = SOUTH -> "south"
                  [] dd = WEST  -> "west"
                  [] dd = NORTH -> "north"]

\* The road items a file of n cities can hold: city k declares dir=to, to
\* being another city of the file.
RoadChoices(n) ==
    {c \in {[city |-> k, dir |-> dd, to |-> CityNames[t]] :
               k \in 1..n, dd \in 0..3, t \in 1..n} :
        c.to # CityNames[c.city]}

RECURSIVE RoadSetsUpTo(_, _)
RoadSetsUpTo(T, k) ==
    IF k = 0 THEN {{}}
    ELSE LET P == RoadSetsUpTo(T, k - 1)
         IN  P \cup {s \cup {t} : s \in P, t \in T}

\* The line of city k: its name, then its road items in direction order.
RECURSIVE RoadItems(_, _, _)
RoadItems(S, k, dd) ==
    IF dd > 3 THEN <<>>
    ELSE LET here == {t \in S : t.city = k /\ t.dir = dd}
         IN  (IF here = {} THEN <<>>
              ELSE LET t == CHOOSE t \in here : TRUE
                   IN  << <<DirNames[dd], t.to>> >>)
             \o RoadItems(S, k, dd + 1)

LineOf(S, k) == <<CityNames[k]>> \o RoadItems(S, k, 0)

\* One road item per (city, direction).
OneItemPerSlot(S) ==
    \A t1, t2 \in S : (t1.city = t2.city /\ t1.dir = t2.dir) => t1 = t2

\* Files of up to Len(CityNames) distinct cities with at most MaxRoads road
\* items, every neighbor being defined.
GeneratedFiles ==
    UNION {{[k \in 1..n |-> LineOf(S, k)] :
              S \in {S \in RoadSetsUpTo(RoadChoices(n), MaxRoads) :
                        OneItemPerSlot(S)}} :
           n \in 0..Len(CityNames)}

\* Files that exercise the remaining branches of the parser.
OtherFiles ==
    { << <<"A">>, <<"A">> >>,
      << <<"A", <<"east">> >>, <<"B">> >>,
      << <<"A", <<"east", "B", "C">> >>, <<"B">>, <<"C">> >>,
      << <<"A", <<"up", "B">> >>, <<"B">> >>,
      << <<"A", <<"east", "Q">> >> >>,
      << <<"A", <<"east", "A">> >> >>,
      << <<"A">>, <<"B", <<"north", "A">>, <<"west", "B">> >> >>,
      << <<"A", <<"east", "Q">>, <<"south", "B">> >>, <<"B", <<"north", "C">> >>, <<"C">> >>,
      << <<"A", <<"east", "B">>, <<"east", "C">> >>, <<"B">>, <<"C">> >>,
      << <<"A", <<"east", "">> >>, <<"B">> >>,
      << <<>> >>,
      << <<"A">>, <<>> >>,
      << <<"A">>, <<>>, <<"B">>, <<>> >>,
      << <<"A">>, <<"B", <<"up", "A">>, <<"east", "B">> >> >> }

InputFiles == GeneratedFiles \cup OtherFiles

(***************************************************************************)
(* First pass: the line parser.                                            *)
(***************************************************************************)
\* strings.Split(line, " "): never empty, the blank line splits to [""].
Split(line) == IF line = <<>> THEN <<"">> ELSE line

\* The switch over the direction keyword; -1 is the default branch.
DirOf(s) ==
    CASE s = "east"  -> EAST
      [] s = "south" -> SOUTH
      [] s = "west"  -> WEST
      [] s = "north" -> NORTH
      [] OTHER       -> -1

\* A variant of the item loop without the test for a city that names itself.
RECURSIVE ParseItemsNoSelfCheck(_, _, _, _)
ParseItemsNoSelfCheck(cityName, items, k, sroads) ==
    IF k > Len(items) THEN [err |-> "none", sroads |-> sroads]
    ELSE LET inners == items[k]
         IN  IF Len(inners) # 2
             THEN [err |-> "SyntaxError", sroads |-> sroads]
             ELSE IF DirOf(inners[1]) = -1
             THEN [err |-> "UnknownDirection", sroads |-> sroads]
             ELSE ParseItemsNoSelfCheck(cityName, items, k + 1,
                             [sroads EXCEPT ![DirOf(inners[1])] = inners[2]])

\* The loop over items[1..]: the error it returns with, or the sroads it fills.
RECURSIVE ParseItems(_, _, _, _)
ParseItems(cityName, items, k, sroads) ==
    IF k > Len(items) THEN [err |-> "none", sroads |-> sroads]
    ELSE LET inners == items[k]
         IN  IF Len(inners) # 2
             THEN [err |-> "SyntaxError", sroads |-> sroads]
             ELSE IF DirOf(inners[1]) = -1
             THEN [err |-> "UnknownDirection", sroads |-> sroads]
             ELSE IF inners[2] = cityName
             THEN [err |-> "SelfReference", sroads |-> sroads]
             ELSE ParseItems(cityName, items, k + 1,
                             [sroads EXCEPT ![DirOf(inners[1])] = inners[2]])

\* A variant that prints the diagnostic and, instead of returning, goes on to
\* the end of the function.
FailNoReturn(kind) ==
    /\ outcome' = kind
    /\ pc' = "write"

\* A variant that prints the diagnostic and stays in the loop it is in.
FailKeepsRunning(kind) ==
    /\ outcome' = kind
    /\ pc' = pc

\* Print the diagnostic and return.
Fail(kind) ==
    /\ outcome' = kind
    /\ pc' = "done"

\* One iteration of the scanner loop.
ReadLine ==
    /\ pc = "read"
    /\ scanned < Len(file)
    /\ scanned' = scanned + 1
    /\ LET items    == Split(file[scanned + 1])
           cityName == items[1]
           nextIndex == len(nodes)
           newNode  == NewNode(cityName, nextIndex)
           parsed   == ParseItems(cityName, items, 2, newNode.sroads)
       IN  IF cityName \in DOMAIN nodeMap
           THEN /\ Fail("DuplicateCity")
                /\ UNCHANGED <<nodes, nodeMap>>
           ELSE IF parsed.err # "none"
           THEN /\ Fail(parsed.err)
                /\ UNCHANGED <<nodes, nodeMap>>
           ELSE /\ nodes' = append(nodes, [newNode EXCEPT !.sroads = parsed.sroads])
                /\ nodeMap' = [nm \in DOMAIN nodeMap \cup {cityName} |->
                                 IF nm = cityName THEN nextIndex ELSE nodeMap[nm]]
                /\ UNCHANGED <<pc, outcome>>
    /\ UNCHANGED <<args, call, file, numaliens, i, d, r, aliens, liveAlienCounter, result>>

\* The scanner is exhausted: the second pass starts.
EndRead ==
    /\ pc = "read"
    /\ scanned = Len(file)
    /\ pc' = "resolve"
    /\ i' = 0
    /\ d' = 0
    /\ UNCHANGED <<args, call, file, numaliens, outcome, scanned, nodes, nodeMap,
                   r, aliens, liveAlienCounter, result>>

(***************************************************************************)
(* Second pass: compile sroads (names) to roads (indices) and check the    *)
(* backlinks.                                                              *)
(***************************************************************************)
\* A variant that turns the direction by a quarter instead of a half.
OppositeDirQuarter(dd) == (dd + 1) % 4

\* The cardinal opposite of direction dd.
OppositeDir(dd) == (dd + 2) % 4

\* A variant of the backlink test that reads the compiled index of the
\* neighbor instead of the name it declared.
BacklinkAllowedByIndex(node, dd, neighNode, od) ==
    \/ neighNode.roads[od] = -1
    \/ neighNode.roads[od] = node.index

\* The test that lets the second pass set the backlink of the neighbor.
BacklinkAllowed(node, dd, neighNode, od) ==
    \/ neighNode.sroads[od] = ""
    \/ neighNode.sroads[od] = node.sroads[dd]

\* The loop header of the second pass steps to the next (i, d).
NextSlot ==
    IF d < 3
    THEN /\ d' = d + 1
         /\ i' = i
    ELSE /\ d' = 0
         /\ i' = i + 1

\* One iteration of the inner loop of the second pass: road d of node i.
ResolveRoad ==
    /\ pc = "resolve"
    /\ i < len(nodes)
    /\ LET node         == nodes[i]
           neighborName == node.sroads[d]
       IN  IF neighborName = ""
           THEN /\ NextSlot
                /\ UNCHANGED <<pc, outcome, nodes>>
           ELSE IF neighborName \notin DOMAIN nodeMap
           THEN /\ Fail("UnknownCity")
                /\ UNCHANGED <<nodes, i, d>>
           ELSE LET idx       == nodeMap[neighborName]
                    linked    == [nodes EXCEPT ![i].roads[d] = idx]
                    od        == OppositeDir(d)
                    neighNode == linked[idx]
                IN  IF BacklinkAllowed(linked[i], d, neighNode, od)
                    THEN /\ nodes' = [linked EXCEPT ![idx].roads[od] = linked[i].index]
                         /\ NextSlot
                         /\ UNCHANGED <<pc, outcome>>
                    ELSE /\ nodes' = linked
                         /\ Fail("InconsistentRoad")
                         /\ UNCHANGED <<i, d>>
    /\ UNCHANGED <<args, call, file, numaliens, scanned, nodeMap, r, aliens,
                   liveAlienCounter, result>>

\* The first pass as a whole, from line k on: the error it returns with, or
\* the nodes and the name map it leaves.
RECURSIVE LoadLines(_, _, _, _)
LoadLines(f, k, ns, nm) ==
    IF k > Len(f) THEN [err |-> "none", nodes |-> ns, nodeMap |-> nm]
    ELSE LET items     == Split(f[k])
             cityName  == items[1]
             nextIndex == len(ns)
             newNode   == NewNode(cityName, nextIndex)
             parsed    == ParseItems(cityName, items, 2, newNode.sroads)
         IN  IF cityName \in DOMAIN nm
             THEN [err |-> "DuplicateCity", nodes |-> ns, nodeMap |-> nm]
             ELSE IF parsed.err # "none"
             THEN [err |-> parsed.err, nodes |-> ns, nodeMap |-> nm]
             ELSE LoadLines(f, k + 1,
                            append(ns, [newNode EXCEPT !.sroads = parsed.sroads]),
                            [n \in DOMAIN nm \cup {cityName} |->
                                IF n = cityName THEN nextIndex ELSE nm[n]])

\* The second pass as a whole, from road dd of node c on.
RECURSIVE ResolveAll(_, _, _, _)
ResolveAll(ns, nm, c, dd) ==
    IF c >= len(ns) THEN [err |-> "none", nodes |-> ns, nodeMap |-> nm]
    ELSE LET neighborName == ns[c].sroads[dd]
             nc == IF dd < 3 THEN c ELSE c + 1
             nd == IF dd < 3 THEN dd + 1 ELSE 0
         IN  IF neighborName = ""
             THEN ResolveAll(ns, nm, nc, nd)
             ELSE IF neighborName \notin DOMAIN nm
             THEN [err |-> "UnknownCity", nodes |-> ns, nodeMap |-> nm]
             ELSE LET idx       == nm[neighborName]
                      linked    == [ns EXCEPT ![c].roads[dd] = idx]
                      od        == OppositeDir(dd)
                      neighNode == linked[idx]
                  IN  IF BacklinkAllowed(linked[c], dd, neighNode, od)
                      THEN ResolveAll([linked EXCEPT ![idx].roads[od] = linked[c].index],
                                      nm, nc, nd)
                      ELSE [err |-> "InconsistentRoad", nodes |-> linked, nodeMap |-> nm]

\* Both passes of the parser on the lines f.
Load(f) ==
    LET scan == LoadLines(f, 1, <<>>, <<>>)
    IN  IF scan.err # "none" THEN scan
        ELSE ResolveAll(scan.nodes, scan.nodeMap, 0, 0)

\* The second pass is over: the alien array is made, all aliens dead.
EndResolve ==
    /\ pc = "resolve"
    /\ i = len(nodes)
    /\ IF numaliens < 0
       THEN \* make([]int, numaliens) panics
            /\ Fail("Panic")
            /\ UNCHANGED <<i, aliens, liveAlienCounter>>
       ELSE /\ pc' = "spawn"
            /\ i' = 0
            /\ aliens' = [a \in 0..(numaliens - 1) |-> -1]
            /\ liveAlienCounter' = 0
            /\ UNCHANGED outcome
    /\ UNCHANGED <<args, call, file, numaliens, scanned, nodes, nodeMap, d, r, result>>

(***************************************************************************)
(* Alien spawn phase.                                                      *)
(***************************************************************************)
\* A variant of the spawn probe that gives up when the drawn city is dead.
ProbeCityOnce(ns, tryCityIndex, cs) ==
    IF len(ns) = 0 THEN -1
    ELSE IF ns[tryCityIndex].dead THEN -1 ELSE tryCityIndex

\* A variant of the spawn probe that takes the drawn city, dead or not.
ProbeCityNoSkip(ns, tryCityIndex, cs) ==
    IF len(ns) = 0 THEN -1 ELSE tryCityIndex

\* The probe loop of the spawner: the first city from tryCityIndex on
\* (wrapping) that is not dead, or -1 after len(nodes) tries.
RECURSIVE ProbeCity(_, _, _)
ProbeCity(ns, tryCityIndex, cs) ==
    IF cs >= len(ns) THEN -1
    ELSE IF ~ ns[tryCityIndex].dead THEN tryCityIndex
    ELSE ProbeCity(ns, IF tryCityIndex + 1 >= len(ns) THEN 0 ELSE tryCityIndex + 1,
                   cs + 1)

\* A variant that never finds an alien in the city.
ExistingAlienNone(ns, c) == -1

\* The alien cached in city c.
ExistingAlien(ns, c) == ns[c].alienid

\* A variant that leaves the city as it is.
MarkDeadNever(ns, c) == ns

\* A variant that rewrites every dead flag: only city c is dead afterwards.
MarkDeadOnly(ns, c) == [k \in DOMAIN ns |-> [ns[k] EXCEPT !.dead = (k = c)]]

\* "Just mark the city as dead".
MarkDead(ns, c) == [ns EXCEPT ![c].dead = TRUE]

\* A variant that removes only the alien that was in the city.
KillOccupant(al, a, existingAlienIdx) == [al EXCEPT ![existingAlienIdx] = -1]

\* A variant that removes only the arriving alien.
KillArriving(al, a, existingAlienIdx) == [al EXCEPT ![a] = -1]

\* "Dead aliens are in no city".
KillBoth(al, a, existingAlienIdx) ==
    [al EXCEPT ![a] = -1, ![existingAlienIdx] = -1]

\* One iteration of the placement loop: alien i.
Spawn ==
    /\ pc = "spawn"
    /\ i < numaliens
    /\ IF len(nodes) = 0
       THEN \* rnd.Intn(0) panics
            /\ Fail("Panic")
            /\ UNCHANGED <<nodes, i, aliens, liveAlienCounter>>
       ELSE \E tryCityIndex \in 0..(len(nodes) - 1) :
              LET chosenCityIndex == ProbeCity(nodes, tryCityIndex, 0)
              IN  IF chosenCityIndex = -1
                  THEN /\ Fail("WorldExhausted")
                       /\ UNCHANGED <<nodes, i, aliens, liveAlienCounter>>
                  ELSE LET placed == [aliens EXCEPT ![i] = chosenCityIndex]
                           existingAlienIdx == ExistingAlien(nodes, chosenCityIndex)
                       IN  /\ IF existingAlienIdx # -1
                              THEN /\ nodes' = MarkDead(nodes, chosenCityIndex)
                                   /\ aliens' = KillBoth(placed, i, existingAlienIdx)
                                   /\ liveAlienCounter' = liveAlienCounter + 1 - 2
                              ELSE /\ nodes' = [nodes EXCEPT ![chosenCityIndex].alienid = i]
                                   /\ aliens' = placed
                                   /\ liveAlienCounter' = liveAlienCounter + 1
                           /\ i' = i + 1
                           /\ UNCHANGED <<pc, outcome>>
    /\ UNCHANGED <<args, call, file, numaliens, scanned, nodeMap, d, r, result>>

\* All aliens were placed: the movement phase starts.
EndSpawn ==
    /\ pc = "spawn"
    /\ i = numaliens
    /\ pc' = "round"
    /\ r' = 0
    /\ UNCHANGED <<args, call, file, numaliens, outcome, scanned, nodes, nodeMap, i, d,
                   aliens, liveAlienCounter, result>>

(***************************************************************************)
(* Alien movement phase.                                                   *)
(***************************************************************************)
\* A variant of the loop test that is off by one.
BelowCapInclusive(rr) == rr <= MaxRounds

\* The round loop goes on while r is below the cap.
BelowCap(rr) == rr < MaxRounds

\* A variant of the early stop that gives up with one alien left.
StopEarlyAtOne(live) == live <= 1

\* The early stop of the round loop.
StopEarly(live) == live <= 0

\* The head of the round loop: leave at the cap or when no alien is alive.
BeginRound ==
    /\ pc = "round"
    /\ IF BelowCap(r) /\ ~ StopEarly(liveAlienCounter)
       THEN /\ pc' = "move"
            /\ i' = 0
       ELSE /\ pc' = "write"
            /\ i' = i
    /\ UNCHANGED <<args, call, file, numaliens, outcome, scanned, nodes, nodeMap, d, r,
                   aliens, liveAlienCounter, result>>

\* A variant of the road test that forgets the dead flag.
ValidRoadAnyCity(ns, destCityIndex) == destCityIndex # -1

\* A road the alien can take: it exists and its city is not dead.
ValidRoad(ns, destCityIndex) ==
    (destCityIndex # -1) /\ (~ ns[destCityIndex].dead)

\* A variant of the direction probe that takes the drawn direction untested.
ProbeDirectionBlind(ns, anode, tryDirection, dr) ==
    [chosenDirection |-> tryDirection,
     destCityIndex   |-> anode.roads[tryDirection]]

\* A variant of the direction probe that tries the drawn direction only.
ProbeDirectionOnce(ns, anode, tryDirection, dr) ==
    IF ValidRoad(ns, anode.roads[tryDirection])
    THEN [chosenDirection |-> tryDirection,
          destCityIndex   |-> anode.roads[tryDirection]]
    ELSE [chosenDirection |-> -1,
          destCityIndex   |-> anode.roads[tryDirection]]

\* The probe loop over the directions: the first direction from tryDirection
\* on (wrapping) whose road is valid, with destCityIndex as the loop leaves it.
RECURSIVE ProbeDirection(_, _, _, _)
ProbeDirection(ns, anode, tryDirection, dr) ==
    IF dr >= 4
    THEN [chosenDirection |-> -1,
          destCityIndex   |-> anode.roads[(tryDirection + 3) % 4]]
    ELSE IF ValidRoad(ns, anode.roads[tryDirection])
    THEN [chosenDirection |-> tryDirection,
          destCityIndex   |-> anode.roads[tryDirection]]
    ELSE ProbeDirection(ns, anode, IF tryDirection + 1 >= 4 THEN 0 ELSE tryDirection + 1,
                        dr + 1)

\* A variant that leaves the occupancy slot of the city as it is.
LeaveCityKeepCache(ns, c) == ns

\* "remove this alien from the previous location's alienid cache".
LeaveCity(ns, c) == [ns EXCEPT ![c].alienid = -1]

\* One iteration of the alien loop of a round: the turn of alien i.
AlienTurn ==
    /\ pc = "move"
    /\ i < numaliens
    /\ IF aliens[i] = -1
       THEN \* skip movement on dead aliens
            /\ i' = i + 1
            /\ UNCHANGED <<pc, outcome, nodes, aliens, liveAlienCounter>>
       ELSE \E tryDirection \in 0..3 :
              LET anode == nodes[aliens[i]]
                  probe == ProbeDirection(nodes, anode, tryDirection, 0)
                  destCityIndex == probe.destCityIndex
              IN  IF probe.chosenDirection = -1
                  THEN \* Alien is just trapped.
                       /\ i' = i + 1
                       /\ UNCHANGED <<pc, outcome, nodes, aliens, liveAlienCounter>>
                  ELSE IF ~ ValidRoad(nodes, destCityIndex)
                  THEN /\ Fail("SimulatorBug")
                       /\ UNCHANGED <<nodes, i, aliens, liveAlienCounter>>
                  ELSE LET left  == LeaveCity(nodes, aliens[i])
                           moved == [aliens EXCEPT ![i] = destCityIndex]
                           existingAlienIdx == ExistingAlien(left, destCityIndex)
                       IN  /\ IF existingAlienIdx # -1
                              THEN /\ nodes' = MarkDead(left, destCityIndex)
                                   /\ aliens' = KillBoth(moved, i, existingAlienIdx)
                                   /\ liveAlienCounter' = liveAlienCounter - 2
                              ELSE /\ nodes' = [left EXCEPT ![destCityIndex].alienid = i]
                                   /\ aliens' = moved
                                   /\ liveAlienCounter' = liveAlienCounter
                           /\ i' = i + 1
                           /\ UNCHANGED <<pc, outcome>>
    /\ UNCHANGED <<args, call, file, numaliens, scanned, nodeMap, d, r, result>>

\* Every alien had its turn: the next round.
EndRound ==
    /\ pc = "move"
    /\ i = numaliens
    /\ r' = r + 1
    /\ pc' = "round"
    /\ UNCHANGED <<args, call, file, numaliens, outcome, scanned, nodes, nodeMap, i, d,
                   aliens, liveAlienCounter, result>>

(***************************************************************************)
(* Result serializer.                                                      *)
(***************************************************************************)
\* A variant of the item loop that does not skip roads to dead cities.
RECURSIVE ResultItemsKeepDead(_, _, _)
ResultItemsKeepDead(ns, c, dd) ==
    IF dd > 3 THEN <<>>
    ELSE LET otherIdx == ns[c].roads[dd]
         IN  (IF otherIdx = -1 THEN <<>>
              ELSE << <<DirNames[dd], ns[otherIdx].cityName>> >>)
             \o ResultItemsKeepDead(ns, c, dd + 1)

\* The road items of the line of city c, from direction dd on.
RECURSIVE ResultItems(_, _, _)
ResultItems(ns, c, dd) ==
    IF dd > 3 THEN <<>>
    ELSE LET otherIdx == ns[c].roads[dd]
         IN  (IF otherIdx = -1 THEN <<>>
              ELSE IF ns[otherIdx].dead THEN <<>>
              ELSE << <<DirNames[dd], ns[otherIdx].cityName>> >>)
             \o ResultItems(ns, c, dd + 1)

\* The lines of the result file, from city c on.
RECURSIVE ResultLines(_, _)
ResultLines(ns, c) ==
    IF c >= len(ns) THEN <<>>
    ELSE (IF ns[c].dead THEN <<>>
          ELSE << <<ns[c].cityName>> \o ResultItems(ns, c, 0) >>)
         \o ResultLines(ns, c + 1)

\* The simulation is complete: "<mapfile>.result" is written.
WriteResult ==
    /\ pc = "write"
    /\ result' = ResultLines(nodes, 0)
    /\ outcome' = "Written"
    /\ pc' = "done"
    /\ UNCHANGED <<args, call, file, numaliens, scanned, nodes, nodeMap, i, d, r,
                   aliens, liveAlienCounter>>

(***************************************************************************)
(* Map file generator. Densities and the values of rnd.Float64() are in    *)
(* tenths; wmap is the record of three functions over the cells <<x, y>>:  *)
(* city (the cell holds a city), east and south (roads[EAST], roads[SOUTH]).*)
(***************************************************************************)
\* The values of rnd.Float64(), which lie in [0, 1).
FloatDraws == {0, 5, 9}

\* The CD and RD arguments of generate(): below, in and at the end of [0, 1].
Densities == {-1, 0, 5, 10}

\* What main() has entered.
NoCall == [fn |-> "none", maxx |-> 0, maxy |-> 0, cd |-> 0, rd |-> 0]

SimulateCall == [NoCall EXCEPT !.fn = "simulate"]

GenerateCall(maxx, maxy, cd, rd) ==
    [fn |-> "generate", maxx |-> maxx, maxy |-> maxy, cd |-> cd, rd |-> rd]

Cells(maxx, maxy) == (0..(maxx - 1)) \X (0..(maxy - 1))

\* fmt.Sprintf("X%dY%d", x, y).
CityNameAt(x, y) == "X" \o ToString(x) \o "Y" \o ToString(y)

\* The outcomes of `rnd.Float64() <= density`.
DrawOutcomes(density) == {u <= density : u \in FloatDraws}

\* The cells for which an EAST road is considered.
EastCandidates(maxx, city) ==
    {c \in DOMAIN city : city[c] /\ c[1] < maxx - 1 /\ city[<<c[1] + 1, c[2]>>]}

\* The cells for which a SOUTH road is considered.
SouthCandidates(maxy, city) ==
    {c \in DOMAIN city : city[c] /\ c[2] < maxy - 1 /\ city[<<c[1], c[2] + 1>>]}

\* wmap[y][x].cityName.
NameOf(wmap, x, y) == IF wmap.city[<<x, y>>] THEN CityNameAt(x, y) ELSE ""

\* A variant of the line writer that names the city itself in its east item.
GenLineSelf(wmap, x, y) ==
    <<NameOf(wmap, x, y)>>
    \o (IF wmap.east[<<x, y>>]
        THEN << <<DirNames[EAST], NameOf(wmap, x, y)>> >> ELSE <<>>)
    \o (IF wmap.south[<<x, y>>]
        THEN << <<DirNames[SOUTH], NameOf(wmap, x, y + 1)>> >> ELSE <<>>)

\* The line that the serializer of the generator writes for the city at x, y.
GenLine(wmap, x, y) ==
    <<NameOf(wmap, x, y)>>
    \o (IF wmap.east[<<x, y>>]
        THEN << <<DirNames[EAST], NameOf(wmap, x + 1, y)>> >> ELSE <<>>)
    \o (IF wmap.south[<<x, y>>]
        THEN << <<DirNames[SOUTH], NameOf(wmap, x, y + 1)>> >> ELSE <<>>)

\* The lines of the map file from cell number n on, row by row.
RECURSIVE GenLines(_, _, _, _)
GenLines(wmap, maxx, maxy, n) ==
    IF n >= maxx * maxy THEN <<>>
    ELSE LET x == n % maxx
             y == n \div maxx
         IN  (IF NameOf(wmap, x, y) # "" THEN <<GenLine(wmap, x, y)>> ELSE <<>>)
             \o GenLines(wmap, maxx, maxy, n + 1)

\* generate(mapfile, maxx, maxy, cd, rd), for every outcome of the draws and
\* of os.Create. make() panics on a negative length.
Generate ==
    /\ pc = "gen"
    /\ call.fn = "generate"
    /\ LET maxx == call.maxx
           maxy == call.maxy
       IN  IF maxy < 0 \/ (maxy > 0 /\ maxx < 0)
           THEN /\ Fail("Panic")
                /\ file' = file
           ELSE \E city \in [Cells(maxx, maxy) -> DrawOutcomes(call.cd)] :
                \E east \in [EastCandidates(maxx, city) -> DrawOutcomes(call.rd)] :
                \E south \in [SouthCandidates(maxy, city) -> DrawOutcomes(call.rd)] :
                \E created \in BOOLEAN :
                    LET wmap == [city  |-> city,
                                 east  |-> [c \in DOMAIN city |->
                                              c \in DOMAIN east /\ east[c]],
                                 south |-> [c \in DOMAIN city |->
                                              c \in DOMAIN south /\ south[c]]]
                    IN  IF created
                        THEN /\ file' = GenLines(wmap, maxx, maxy, 0)
                             /\ outcome' = "Done"
                             /\ pc' = "generated"
                        ELSE /\ file' = file
                             /\ Fail("CannotWrite")
    /\ call' = NoCall
    /\ UNCHANGED <<args, numaliens, scanned, nodes, nodeMap, i, d, r, aliens,
                   liveAlienCounter, result>>

\* simulate() is run on the map file that generate() wrote: os.Open.
OpenGenerated ==
    /\ pc = "generated"
    /\ pc' = "read"
    /\ outcome' = "running"
    /\ call' = SimulateCall
    /\ UNCHANGED <<args, file, numaliens, scanned, nodes, nodeMap, i, d, r,
                   aliens, liveAlienCounter, result>>

(***************************************************************************)
(* main(). A command line argument is the sequence of its characters. The  *)
(* parsers of strconv are modelled on the characters "0".."9", "+", "-",   *)
(* "." and letters that are no part of a number; floats are in tenths.     *)
(***************************************************************************)
DigitOf(c) ==
    CASE c = "0" -> 0 [] c = "1" -> 1 [] c = "2" -> 2 [] c = "3" -> 3
      [] c = "4" -> 4 [] c = "5" -> 5 [] c = "6" -> 6 [] c = "7" -> 7
      [] c = "8" -> 8 [] c = "9" -> 9 [] OTHER -> -1

IsDigits(s) == \A k \in 1..Len(s) : DigitOf(s[k]) # -1

\* The value of a sequence of decimal digits.
RECURSIVE DigitsValue(_)
DigitsValue(s) ==
    IF s = <<>> THEN 0
    ELSE 10 * DigitsValue(SubSeq(s, 1, Len(s) - 1)) + DigitOf(s[Len(s)])

\* The argument without its sign.
Unsigned(s) == IF s # <<>> /\ s[1] \in {"+", "-"} THEN Tail(s) ELSE s

Negative(s) == s # <<>> /\ s[1] = "-"

\* strconv.Atoi: an optional sign and at least one digit; 0 with an error
\* otherwise.
Atoi(s) ==
    LET body == Unsigned(s)
    IN  IF body = <<>> \/ ~ IsDigits(body)
        THEN [val |-> 0, err |-> TRUE]
        ELSE [val |-> IF Negative(s) THEN 0 - DigitsValue(body) ELSE DigitsValue(body),
              err |-> FALSE]

\* strconv.ParseFloat(s, 64), in tenths: an optional sign, digits with at
\* most one point among them, at least one digit; 0 with an error otherwise.
ParseFloat(s) ==
    LET body   == Unsigned(s)
        points == {k \in 1..Len(body) : body[k] = "."}
        p      == IF points = {} THEN Len(body) + 1
                  ELSE CHOOSE k \in points : \A k2 \in points : k <= k2
        whole  == SubSeq(body, 1, p - 1)
        frac   == SubSeq(body, p + 1, Len(body))
    IN  IF ~ IsDigits(whole) \/ ~ IsDigits(frac) \/ (whole = <<>> /\ frac = <<>>)
        THEN [val |-> 0, err |-> TRUE]
        ELSE LET tenths == 10 * DigitsValue(whole)
                           + (IF frac = <<>> THEN 0 ELSE DigitOf(frac[1]))
             IN  [val |-> IF Negative(s) THEN 0 - tenths ELSE tenths, err |-> FALSE]

\* The diagnostics after which main() prints the help text.
HelpOutcomes ==
    {"NoArguments", "TooFewGenArguments", "TooManyGenArguments", "GenParseError",
     "UnsupportedCommand", "TooFewSimArguments", "TooManySimArguments",
     "SimParseError"}

GenCommand == <<"-", "g", "e", "n">>

\* `ok` is assigned by each of the four parsers in turn: the test reads the
\* error of the last one.
GenParseFailed(maxx, maxy, cd, rd) == rd.err

\* main(): args[k] is os.Args[k].
Main ==
    /\ pc = "main"
    /\ IF Len(args) < 1
       THEN /\ Fail("NoArguments")
            /\ UNCHANGED <<call, numaliens>>
       ELSE IF args[1] = GenCommand
       THEN IF Len(args) < 6
            THEN /\ Fail("TooFewGenArguments")
                 /\ UNCHANGED <<call, numaliens>>
            ELSE IF Len(args) > 6
            THEN /\ Fail("TooManyGenArguments")
                 /\ UNCHANGED <<call, numaliens>>
            ELSE LET maxx == Atoi(args[3])
                     maxy == Atoi(args[4])
                     cd   == ParseFloat(args[5])
                     rd   == ParseFloat(args[6])
                 IN  IF GenParseFailed(maxx, maxy, cd, rd)
                     THEN /\ Fail("GenParseError")
                          /\ UNCHANGED <<call, numaliens>>
                     ELSE /\ call' = GenerateCall(maxx.val, maxy.val, cd.val, rd.val)
                          /\ pc' = "gen"
                          /\ UNCHANGED <<outcome, numaliens>>
       ELSE IF args[1] = <<>>
       THEN \* os.Args[1][0]: index out of range
            /\ Fail("Panic")
            /\ UNCHANGED <<call, numaliens>>
       ELSE IF args[1][1] = "-"
       THEN /\ Fail("UnsupportedCommand")
            /\ UNCHANGED <<call, numaliens>>
       ELSE IF Len(args) < 2
       THEN /\ Fail("TooFewSimArguments")
            /\ UNCHANGED <<call, numaliens>>
       ELSE IF Len(args) > 2
       THEN /\ Fail("TooManySimArguments")
            /\ UNCHANGED <<call, numaliens>>
       ELSE LET parsed == Atoi(args[2])
            IN  IF parsed.err
                THEN /\ Fail("SimParseError")
                     /\ UNCHANGED <<call, numaliens>>
                ELSE /\ call' = SimulateCall
                     /\ numaliens' = parsed.val
                     /\ pc' = "read"
                     /\ UNCHANGED outcome
    /\ UNCHANGED <<args, file, scanned, nodes, nodeMap, i, d, r, aliens,
                   liveAlienCounter, result>>

\* The arguments that stand for numbers on the command lines of the model.
NumberArgs == { <<"2">>, <<"x">>, <<"-", "1">>, <<"0", ".", "5">>, <<>> }

MapFileArg == <<"m">>

\* The command lines of the model.
ArgLists ==
    {<<GenCommand, MapFileArg, a, b, c, e>> : a, b, c, e \in NumberArgs}
    \cup {<<MapFileArg, a>> : a \in NumberArgs}
    \cup { <<>>,
           <<GenCommand>>,
           <<GenCommand, MapFileArg, <<"2">>, <<"2">>, <<"1">> >>,
           <<GenCommand, MapFileArg, <<"2">>, <<"2">>, <<"1">>, <<"1">>, <<"x">> >>,
           << <<"-", "x">> >>,
           << <<>> >>,
           <<MapFileArg>>,
           <<MapFileArg, <<"2">>, <<"x">> >> }

\* What the map file named on the command line holds when main() starts.
MapFiles == { <<>>, << <<"A", <<"east", "B">> >>, <<"B">> >> }

(***************************************************************************)
(* Specification.                                                          *)
(***************************************************************************)
Init ==
    /\ args = <<>>
    /\ call = SimulateCall
    /\ file \in InputFiles
    /\ numaliens \in 0..MaxAliens
    /\ pc = "read"
    /\ outcome = "running"
    /\ scanned = 0
    /\ nodes = <<>>
    /\ nodeMap = <<>>
    /\ i = 0
    /\ d = 0
    /\ r = 0
    /\ aliens = <<>>
    /\ liveAlienCounter = 0
    /\ result = <<>>

Next ==
    \/ ReadLine
    \/ EndRead
    \/ ResolveRoad
    \/ EndResolve
    \/ Spawn
    \/ EndSpawn
    \/ BeginRound
    \/ AlienTurn
    \/ EndRound
    \/ WriteResult

Spec == Init /\ [][Next]_vars

FairSpec == Init /\ [][Next]_vars /\ WF_vars(Next)

\* generate() for every grid up to MaxGrid x MaxGrid, then the parser on
\* the map file it wrote.
GenInit ==
    /\ args = <<>>
    /\ call \in {GenerateCall(maxx, maxy, cd, rd) :
                    maxx \in -1..MaxGrid, maxy \in -1..MaxGrid,
                    cd \in Densities, rd \in Densities}
    /\ file = <<>>
    /\ numaliens = 0
    /\ pc = "gen"
    /\ outcome = "running"
    /\ scanned = 0
    /\ nodes = <<>>
    /\ nodeMap = <<>>
    /\ i = 0
    /\ d = 0
    /\ r = 0
    /\ aliens = <<>>
    /\ liveAlienCounter = 0
    /\ result = <<>>

\* main() on the command lines of the model, with generate() and simulate().
MainInit ==
    /\ args \in ArgLists
    /\ call = NoCall
    /\ file \in MapFiles
    /\ numaliens = 0
    /\ pc = "main"
    /\ outcome = "running"
    /\ scanned = 0
    /\ nodes = <<>>
    /\ nodeMap = <<>>
    /\ i = 0
    /\ d = 0
    /\ r = 0
    /\ aliens = <<>>
    /\ liveAlienCounter = 0
    /\ result = <<>>

MainNext ==
    \/ Main
    \/ Generate
    \/ Next

MainSpec == MainInit /\ [][MainNext]_vars

GenNext ==
    \/ Generate
    \/ OpenGenerated
    \/ ReadLine
    \/ EndRead
    \/ ResolveRoad
    \/ EndResolve

GenSpec == GenInit /\ [][GenNext]_vars

(***************************************************************************)
(* Vocabulary of the properties.                                           *)
(***************************************************************************)
LoaderErrors == {"DuplicateCity", "SyntaxError", "UnknownDirection",
                 "SelfReference", "UnknownCity", "InconsistentRoad"}

\* Both parser passes are over.
LoadEnded == pc \notin {"read", "resolve"}

\* The state in which the parser ends: an error, or the start of spawning.
LoadJustEnded ==
    \/ pc = "spawn" /\ i = 0
    \/ pc = "done" /\ outcome \in LoaderErrors

\* Both parser passes are over and none reported an error.
LoadSucceeded == LoadEnded /\ outcome \notin LoaderErrors

\* Every alien had its spawn step: a condition that, once true, stays true.
SpawnComplete ==
    \/ pc = "spawn" /\ i = numaliens
    \/ pc \in {"round", "move", "write"}
    \/ pc = "done" /\ outcome \in {"Written", "SimulatorBug"}

Placed(a) == aliens[a] # -1

PlacedAliens == {a \in DOMAIN aliens : Placed(a)}

DeadCities(ns) == {c \in DOMAIN ns : ns[c].dead}

\* The opposite of a direction, as the data model states it.
Opposite(dd) ==
    CASE dd = NORTH -> SOUTH
      [] dd = SOUTH -> NORTH
      [] dd = EAST  -> WEST
      [] dd = WEST  -> EAST

\* The name a line defines.
LineName(line) == IF line = <<>> THEN "" ELSE line[1]

FileNames(f) == {LineName(f[k]) : k \in 1..Len(f)}

\* A file with no fault other than, possibly, roads that disagree: no blank
\* line, distinct names, every item a DIR=NAME with a known direction, one
\* item per direction, no city its own neighbor, every neighbor defined.
WellFormed(f) ==
    /\ \A k \in 1..Len(f) : f[k] # <<>>
    /\ \A k1, k2 \in 1..Len(f) : k1 # k2 => LineName(f[k1]) # LineName(f[k2])
    /\ \A k \in 1..Len(f) : \A j \in 2..Len(f[k]) :
          /\ Len(f[k][j]) = 2
          /\ f[k][j][1] \in {DirNames[dd] : dd \in 0..3}
          /\ f[k][j][2] \in FileNames(f) \ {f[k][1]}
          /\ \A j2 \in 2..Len(f[k]) : j2 # j => f[k][j2][1] # f[k][j][1]

\* City a declares the road dd=b in file f.
Declares(f, a, dd, b) ==
    \E k \in 1..Len(f) :
        /\ LineName(f[k]) = a
        /\ \E j \in 2..Len(f[k]) : f[k][j] = <<DirNames[dd], b>>

\* City a declares no road in direction dd.
DeclaresNothing(f, a, dd) ==
    \A k \in 1..Len(f) :
        LineName(f[k]) = a => \A j \in 2..Len(f[k]) : f[k][j][1] # DirNames[dd]

\* Some city declares a road whose target declares the opposite road to a
\* third city.
Conflict(f) ==
    \E a, b, c \in FileNames(f) : \E dd \in 0..3 :
        /\ c # a
        /\ Declares(f, a, dd, b)
        /\ Declares(f, b, Opposite(dd), c)

\* The index of the city named nm in the resolved table.
IndexOf(nm) == CHOOSE c \in DOMAIN nodes : nodes[c].cityName = nm

(***************************************************************************)
(* C1: no duplicate occupancy. In every reachable state no two distinct    *)
(* aliens have the same non-destroyed city as their current city.          *)
(***************************************************************************)
NoDuplicateOccupancy ==
    \A a, b \in DOMAIN aliens :
        (a # b /\ Placed(a) /\ aliens[a] = aliens[b]) => nodes[aliens[a]].dead

\* Two aliens are placed in the second round, after the first alien's turn.
NoDuplicateOccupancyWitness ==
    /\ pc = "move"
    /\ r >= 1
    /\ i >= 1
    /\ Cardinality(PlacedAliens) >= 2

(***************************************************************************)
(* C2: destroyed-city invariant. No placed alien has a destroyed city as   *)
(* its current city, and no spawn step or alien turn brings an alien into  *)
(* a city that is destroyed when the step starts: an alien that the step   *)
(* leaves placed is in a city that was not destroyed, and an alien that    *)
(* the step removes met its end in a city that was not destroyed before.   *)
(***************************************************************************)
NoAlienInDeadCity ==
    \A a \in DOMAIN aliens : Placed(a) => ~ nodes[aliens[a]].dead

NoEntryIntoDeadCity ==
    /\ (pc = "spawn" /\ i' = i + 1) =>
          IF aliens'[i] # -1
          THEN ~ nodes[aliens'[i]].dead
          ELSE \E c \in DOMAIN nodes : ~ nodes[c].dead /\ nodes'[c].dead
    /\ (pc = "move" /\ i' = i + 1 /\ aliens[i] # -1) =>
          IF aliens'[i] # -1
          THEN ~ nodes[aliens'[i]].dead
          ELSE \E c \in DOMAIN nodes : ~ nodes[c].dead /\ nodes'[c].dead

DestroyedCityInvariant == [](NoAlienInDeadCity) /\ [][NoEntryIntoDeadCity]_vars

\* A placed alien that already had its turn stands next to a destroyed city.
DestroyedCityWitness ==
    /\ pc = "move"
    /\ \E a \in PlacedAliens :
          /\ a < i
          /\ \E dd \in 0..3 :
                /\ nodes[aliens[a]].roads[dd] # -1
                /\ nodes[nodes[aliens[a]].roads[dd]].dead

(***************************************************************************)
(* C3: reciprocity after load. Whenever the loader succeeds, the resolved  *)
(* table is symmetric: if road dd of city a leads to b, then the opposite  *)
(* road of b leads to a.                                                   *)
(***************************************************************************)
ReciprocityAfterLoad ==
    LoadSucceeded =>
        \A a, b \in DOMAIN nodes : \A dd \in 0..3 :
            nodes[a].roads[dd] = b => nodes[b].roads[Opposite(dd)] = a

(***************************************************************************)
(* C4: a road declared consistently from both sides is accepted. For a     *)
(* well-formed file without conflict in which a declares dd=b and b        *)
(* declares the opposite road to a, the loader reports no InconsistentRoad *)
(* and the resolved table has a.dd = b and b.opposite(dd) = a.             *)
(***************************************************************************)
ConsistentRoadAccepted ==
    (WellFormed(file) /\ ~ Conflict(file)) =>
        \A a, b \in FileNames(file) : \A dd \in 0..3 :
            (Declares(file, a, dd, b) /\ Declares(file, b, Opposite(dd), a)) =>
                /\ outcome # "InconsistentRoad"
                /\ LoadEnded =>
                      /\ nodes[IndexOf(a)].roads[dd] = IndexOf(b)
                      /\ nodes[IndexOf(b)].roads[Opposite(dd)] = IndexOf(a)

ReciprocityAutoFill ==
    (WellFormed(file) /\ LoadSucceeded) =>
        \A a, b \in FileNames(file) : \A dd \in 0..3 :
            (Declares(file, a, dd, b) /\ DeclaresNothing(file, b, Opposite(dd))) =>
                nodes[IndexOf(b)].roads[Opposite(dd)] = IndexOf(a)

(***************************************************************************)
(* C7: termination bound. The movement phase runs at most MaxRounds        *)
(* rounds; once no alien is placed, no alien is moved any more and the     *)
(* head of the round loop leaves the loop; every run reaches its end.      *)
(***************************************************************************)
NoMoveWithoutAliens ==
    (pc \in {"round", "move", "write"} /\ PlacedAliens = {}) =>
        /\ aliens' = aliens
        /\ nodes' = nodes
        /\ pc = "round" => pc' = "write"

TerminationBound ==
    /\ [](r <= MaxRounds)
    /\ [][NoMoveWithoutAliens]_vars
    /\ <>(pc = "done")

\* The round loop was left early, before the cap, with all aliens removed
\* in the movement phase.
TerminationBoundWitness ==
    /\ pc = "write"
    /\ r >= 1
    /\ r < MaxRounds
    /\ numaliens >= 2
    /\ PlacedAliens = {}

(***************************************************************************)
(* C8: collision effect. A spawn step or alien turn either destroys        *)
(* nothing, removes no alien and leaves its alien, if it went anywhere, in *)
(* a city that was unoccupied; or it destroys exactly one city c and       *)
(* removes exactly two distinct aliens, the acting alien and the alien     *)
(* that occupied c. No other step destroys a city or removes an alien.     *)
(***************************************************************************)
NewlyDead == DeadCities(nodes') \ DeadCities(nodes)

\* The aliens lost in the step; a spawned alien that never shows up placed
\* counts as lost.
NewlyRemoved ==
    {a \in DOMAIN aliens : (Placed(a) \/ (pc = "spawn" /\ a = i)) /\ aliens'[a] = -1}

CollisionEffectStep ==
    IF i' = i + 1 /\ (pc = "spawn" \/ (pc = "move" /\ aliens[i] # -1))
    THEN \/ /\ NewlyDead = {}
            /\ NewlyRemoved = {}
            /\ aliens'[i] # aliens[i] => nodes[aliens'[i]].alienid = -1
            /\ \A a \in DOMAIN aliens \ {i} : aliens'[a] = aliens[a]
         \/ \E c \in DOMAIN nodes : \E x \in DOMAIN aliens :
               /\ NewlyDead = {c}
               /\ x # i
               /\ nodes[c].alienid = x
               /\ aliens[x] = c
               /\ NewlyRemoved = {i, x}
               /\ \A a \in DOMAIN aliens \ {i, x} : aliens'[a] = aliens[a]
    ELSE /\ pc \notin {"read", "resolve"} => DeadCities(nodes') = DeadCities(nodes)
         /\ pc \notin {"read", "resolve"} => aliens' = aliens

CollisionEffect == [][CollisionEffectStep]_vars

\* Two aliens were spawned apart and met in the movement phase.
CollisionEffectWitness ==
    /\ pc = "move"
    /\ numaliens = 2
    /\ PlacedAliens = {}
    /\ Cardinality(DeadCities(nodes)) = 1

(***************************************************************************)
(* C9: occupancy is cleared on destruction. In every reachable state the   *)
(* occupancy slot of every destroyed city holds no alien id.               *)
(***************************************************************************)
OccupancyClearedOnDestruction ==
    \A c \in DOMAIN nodes : nodes[c].dead => nodes[c].alienid = -1

(***************************************************************************)
(* C10: monotonic destruction. A city whose destroyed flag is true keeps   *)
(* it true in every later state of the run.                                *)
(***************************************************************************)
MonotonicDestruction ==
    [][\A c \in DOMAIN nodes :
          nodes[c].dead => (c \in DOMAIN nodes' /\ nodes'[c].dead)]_vars

\* A result was written for a table in which two cities were destroyed.
MonotonicDestructionWitness ==
    /\ pc = "done"
    /\ outcome = "Written"
    /\ Cardinality(DeadCities(nodes)) >= 2

(***************************************************************************)
(* C11: an alien with a valid exit always moves. In the turn of a placed   *)
(* alien whose city has a road that exists and leads to a city that is not *)
(* destroyed, whatever direction is drawn, the alien leaves its city, and  *)
(* the city it goes to (where it stays, or where it collides) is the       *)
(* target of such a road of its old city.                                  *)
(***************************************************************************)
\* The cities that the roads of city c lead to and that are not destroyed.
Exits(ns, c) ==
    {ns[c].roads[dd] :
        dd \in {x \in 0..3 : ns[c].roads[x] # -1 /\ ~ ns[ns[c].roads[x]].dead}}

AlienWithExitMovesStep ==
    (pc = "move" /\ i < numaliens /\ aliens[i] # -1 /\ Exits(nodes, aliens[i]) # {}) =>
        /\ i' = i + 1
        /\ aliens'[i] # aliens[i]
        /\ LET dest == IF aliens'[i] # -1 THEN {aliens'[i]} ELSE NewlyDead
           IN  /\ dest # {}
               /\ dest \subseteq Exits(nodes, aliens[i])

AlienWithExitMoves == [][AlienWithExitMovesStep]_vars

\* An alien had its turn and stands in a city with an exit, while another
\* city is destroyed.
AlienWithExitMovesWitness ==
    /\ pc = "move"
    /\ i >= 1
    /\ Placed(i - 1)
    /\ nodes[aliens[i - 1]].alienid = i - 1
    /\ Exits(nodes, aliens[i - 1]) # {}
    /\ DeadCities(nodes) # {}

(***************************************************************************)
(* C12: a trapped alien's turn changes nothing. If no road of a placed     *)
(* alien's city exists and leads to a city that is not destroyed, its turn *)
(* leaves every alien position, the whole city table (occupancy slots and  *)
(* destroyed flags) and the live-alien count unchanged and raises no       *)
(* error: the run goes on with the next alien.                             *)
(***************************************************************************)
TrappedTurnStep ==
    (pc = "move" /\ i < numaliens /\ aliens[i] # -1 /\ Exits(nodes, aliens[i]) = {}) =>
        /\ aliens' = aliens
        /\ nodes' = nodes
        /\ liveAlienCounter' = liveAlienCounter
        /\ outcome' = outcome
        /\ pc' = "move"
        /\ i' = i + 1

TrappedTurnChangesNothing == [][TrappedTurnStep]_vars

\* A trapped alien had its turn: its only way out leads to a destroyed city.
TrappedTurnWitness ==
    /\ pc = "move"
    /\ i >= 1
    /\ Placed(i - 1)
    /\ Exits(nodes, aliens[i - 1]) = {}
    /\ \E dd \in 0..3 : nodes[aliens[i - 1]].roads[dd] # -1

(***************************************************************************)
(* C13: world exhausted. For every resolved table, the table without       *)
(* cities included, and every N >= 1: if no city is left that is not       *)
(* destroyed when alien i is to be placed, the step ends the run with the  *)
(* WorldExhausted outcome; no alien is placed, no round runs, no result is *)
(* written and the program does not crash.                                 *)
(***************************************************************************)
WorldExhaustedStep ==
    (pc = "spawn" /\ i < numaliens /\ \A c \in DOMAIN nodes : nodes[c].dead) =>
        /\ outcome' = "WorldExhausted"
        /\ pc' = "done"
        /\ aliens' = aliens
        /\ nodes' = nodes
        /\ r' = r
        /\ result' = result

WorldExhaustedHalts == [][WorldExhaustedStep]_vars

(***************************************************************************)
(* C14: a result file is written exactly when spawning completes for all   *)
(* N aliens. Once the placement loop has placed all aliens the run goes on *)
(* to write the result, whether the movement phase ends with all aliens    *)
(* removed or at the round cap; the result is written only at the end of   *)
(* the movement phase, which starts only when the placement loop is over;  *)
(* after a loader error or a WorldExhausted outcome nothing is written and *)
(* the run takes no further step.                                          *)
(***************************************************************************)
\* The placement loop has handled all aliens.
SpawnDone == pc = "spawn" /\ i = numaliens

NoResultOutcomes == LoaderErrors \cup {"WorldExhausted"}

ResultWrittenStep ==
    /\ outcome \notin NoResultOutcomes
    /\ (outcome' = "Written" /\ outcome # "Written") => pc = "write"
    /\ result' # result => pc = "write"
    /\ (pc' = "write" /\ pc # "write") => pc = "round"
    /\ (pc' = "round" /\ pc # "round") => (SpawnDone \/ pc = "move")
    /\ (pc' = "move" /\ pc # "move") => pc = "round"

LiveCities(ns) == {c \in DOMAIN ns : ~ ns[c].dead}

\* Road dd of city c exists and leads to a city that is not destroyed.
SurvivingRoad(ns, c, dd) ==
    ns[c].roads[dd] # -1 /\ ~ ns[ns[c].roads[dd]].dead

\* The number of the line of city c: one more than the live cities before it.
LineNumber(ns, c) == Cardinality({c2 \in LiveCities(ns) : c2 < c}) + 1

SerializerContent ==
    outcome = "Written" =>
        /\ Len(result) = Cardinality(LiveCities(nodes))
        /\ \A c \in LiveCities(nodes) :
              LET line == result[LineNumber(nodes, c)]
              IN  /\ line[1] = nodes[c].cityName
                  /\ Len(line) - 1 =
                        Cardinality({dd \in 0..3 : SurvivingRoad(nodes, c, dd)})
                  /\ \A dd \in 0..3 :
                        IF SurvivingRoad(nodes, c, dd)
                        THEN \E j \in 2..Len(line) :
                                line[j] = <<DirNames[dd],
                                            nodes[nodes[c].roads[dd]].cityName>>
                        ELSE \A j \in 2..Len(line) : line[j][1] # DirNames[dd]
                  /\ \A j \in 2..Len(line) :
                        \E c2 \in LiveCities(nodes) : line[j][2] = nodes[c2].cityName

\* A result with a destroyed city left out as a line and as a neighbor of a
\* city that keeps another road.
SerializerContentWitness ==
    /\ outcome = "Written"
    /\ \E c \in LiveCities(nodes) :
          /\ \E dd \in 0..3 : SurvivingRoad(nodes, c, dd)
          /\ \E dd \in 0..3 :
                nodes[c].roads[dd] # -1 /\ nodes[nodes[c].roads[dd]].dead

(***************************************************************************)
(* C16: round trip. For an input file in which only east and south roads   *)
(* are declared, loading it and serializing it with no aliens gives a      *)
(* result with the same cities in which a has the item dd=b exactly when   *)
(* the input declares that road or its reciprocal.                         *)
(***************************************************************************)
OnlyEastSouth(f) ==
    \A k \in 1..Len(f) : \A j \in 2..Len(f[k]) :
        f[k][j][1] \in {DirNames[EAST], DirNames[SOUTH]}

\* The line of city a in the result carries the item dd=b.
ResultHas(a, dd, b) ==
    \E k \in 1..Len(result) :
        /\ result[k][1] = a
        /\ \E j \in 2..Len(result[k]) : result[k][j] = <<DirNames[dd], b>>

RoundTrip ==
    (numaliens = 0 /\ outcome = "Written" /\ WellFormed(file) /\ OnlyEastSouth(file)) =>
        /\ {result[k][1] : k \in 1..Len(result)} = FileNames(file)
        /\ \A a, b \in FileNames(file) : \A dd \in 0..3 :
              ResultHas(a, dd, b) <=>
                  (Declares(file, a, dd, b) \/ Declares(file, b, Opposite(dd), a))

(***************************************************************************)
(* C17: the example. The lines `A east=B`, `B south=C`, `C` load to a      *)
(* table with A at index 0, B at 1, C at 2 and A.east=B, B.west=A,         *)
(* B.south=C, C.north=B and no other road. When 2 aliens were spawned on A *)
(* and C, whatever is drawn, the first turn of round 0 moves alien 0 into  *)
(* B, the second turn destroys B and removes both aliens, no other round   *)
(* moves anything, and the result written holds exactly the lines `A` and  *)
(* `C`.                                                                    *)
(***************************************************************************)
ExampleFile ==
    << <<"A", <<"east", "B">> >>, <<"B", <<"south", "C">> >>, <<"C">> >>

ExampleRoads(c) ==
    [dd \in 0..3 |->
        CASE c = 0 /\ dd = EAST  -> 1
          [] c = 1 /\ dd = WEST  -> 0
          [] c = 1 /\ dd = SOUTH -> 2
          [] c = 2 /\ dd = NORTH -> 1
          [] OTHER               -> -1]

ExampleTable ==
    (file = ExampleFile /\ LoadEnded) =>
        /\ outcome \notin LoaderErrors
        /\ DOMAIN nodes = 0..2
        /\ nodes[0].cityName = "A" /\ nodes[1].cityName = "B" /\ nodes[2].cityName = "C"
        /\ \A c \in 0..2 : nodes[c].index = c /\ nodes[c].roads = ExampleRoads(c)

\* Round 0 starts with the two aliens on A and C.
ExampleSpawned ==
    /\ file = ExampleFile /\ numaliens = 2
    /\ pc = "move" /\ r = 0 /\ i = 0
    /\ {aliens[0], aliens[1]} = {0, 2}

\* Alien 0 had its turn and is in B, alien 1 is still on A or C.
ExampleFirstMoved ==
    /\ file = ExampleFile /\ numaliens = 2
    /\ pc = "move" /\ r = 0 /\ i = 1
    /\ aliens[0] = 1 /\ aliens[1] \in {0, 2}
    /\ DeadCities(nodes) = {}

\* B is destroyed and no alien is left.
ExampleDestroyed ==
    /\ DeadCities(nodes) = {1}
    /\ \A a \in DOMAIN aliens : aliens[a] = -1
    /\ liveAlienCounter = 0

\* Round 0 is over with B destroyed.
ExampleRoundOver ==
    /\ file = ExampleFile /\ numaliens = 2
    /\ pc = "move" /\ r = 0 /\ i = 2
    /\ ExampleDestroyed

\* The round loop is left: no other round runs.
ExampleHalted ==
    /\ file = ExampleFile /\ numaliens = 2
    /\ pc = "round" /\ r = 1
    /\ ExampleDestroyed

ExampleWriting ==
    /\ file = ExampleFile /\ numaliens = 2
    /\ pc = "write" /\ r = 1
    /\ ExampleDestroyed

ExampleRoundStep ==
    /\ ExampleSpawned => ExampleFirstMoved'
    /\ ExampleFirstMoved => ExampleRoundOver'
    /\ ExampleRoundOver => ExampleHalted'
    /\ ExampleHalted => ExampleWriting'
    /\ ExampleWriting =>
          (outcome' = "Written" /\ result' = << <<"A">>, <<"C">> >>)

ExampleRun ==
    /\ []ExampleTable
    /\ [][ExampleRoundStep]_vars

\* The run of the example is over: alien 0 went into B in round 0, alien 1
\* followed, and the result is written.
ExampleRunWitness ==
    /\ file = ExampleFile /\ numaliens = 2
    /\ outcome = "Written" /\ r = 1
    /\ nodes[1].dead /\ nodes[1].alienid = 0
    /\ nodes[0].alienid = -1 /\ nodes[2].alienid = -1
    /\ result = << <<"A">>, <<"C">> >>

(***************************************************************************)
(* C18: blank lines are ignored. A file of blank lines and of lines that   *)
(* hold one city name each, the names distinct, loads without error to the *)
(* table of the file without its blank lines: one city per line that is    *)
(* not blank, in the order of the lines, and no city with the empty name.  *)
(***************************************************************************)
IsBlank(line) == line = <<>>

NonBlank(f) == SelectSeq(f, LAMBDA line : ~ IsBlank(line))

NamesOnly(f) ==
    /\ \A k \in 1..Len(f) : Len(f[k]) <= 1
    /\ WellFormed(NonBlank(f))

BlankLinesIgnored ==
    (LoadJustEnded /\ NamesOnly(file)) =>
        /\ outcome \notin LoaderErrors
        /\ len(nodes) = Len(NonBlank(file))
        /\ \A c \in DOMAIN nodes :
              /\ nodes[c].cityName # ""
              /\ c < Len(NonBlank(file)) => nodes[c].cityName = NonBlank(file)[c + 1][1]

(***************************************************************************)
(* C19: loader errors are fatal and leave no effect. Once loading failed   *)
(* with DuplicateCity, SyntaxError, UnknownDirection, SelfReference,       *)
(* UnknownCity or InconsistentRoad the run is over: no alien array was     *)
(* made, no alien was spawned, no round was run, no result was written,    *)
(* and no step follows.                                                    *)
(***************************************************************************)
LoaderErrorState ==
    (outcome \in LoaderErrors) =>
        /\ pc = "done"
        /\ aliens = <<>>
        /\ liveAlienCounter = 0
        /\ \A c \in DOMAIN nodes : nodes[c].alienid = -1 /\ ~ nodes[c].dead
        /\ r = 0
        /\ result = <<>>

LoaderErrorsFatal ==
    /\ []LoaderErrorState
    /\ [][outcome \notin LoaderErrors]_vars

\* The second pass failed after it had compiled a road of a file that asks
\* for aliens.
LoaderErrorsFatalWitness ==
    /\ outcome = "InconsistentRoad"
    /\ numaliens > 0
    /\ \E c \in DOMAIN nodes : \E dd \in 0..3 : nodes[c].roads[dd] # -1

(***************************************************************************)
(* C20: self-reference rejection. A file with an item DIR=NAME, DIR one of *)
(* the four directions, on the line of the city NAME never loads; it fails *)
(* with SelfReference when the scanner finds no other fault in the file (a *)
(* name defined twice, an item that is not DIR=NAME, an unknown direction),*)
(* and in no state does a road slot of the table point to its own city.    *)
(***************************************************************************)
SelfNaming(f) ==
    \E k \in 1..Len(f) : \E j \in 2..Len(f[k]) :
        /\ Len(f[k][j]) = 2
        /\ f[k][j][1] \in {DirNames[dd] : dd \in 0..3}
        /\ f[k][j][2] = f[k][1]

\* The first pass has nothing else to report.
NoOtherScanFault(f) ==
    /\ \A k1, k2 \in 1..Len(f) : k1 # k2 => LineName(f[k1]) # LineName(f[k2])
    /\ \A k \in 1..Len(f) : \A j \in 2..Len(f[k]) :
          /\ Len(f[k][j]) = 2
          /\ f[k][j][1] \in {DirNames[dd] : dd \in 0..3}

NoSelfRoad ==
    \A c \in DOMAIN nodes : \A dd \in 0..3 : nodes[c].roads[dd] # c

AlienLifecycleStep ==
    /\ \A a \in DOMAIN aliens :
          /\ (~ Placed(a) /\ ~ (pc = "spawn" /\ a = i)) =>
                (a \in DOMAIN aliens' /\ aliens'[a] = -1)
          /\ (Placed(a) /\ aliens'[a] = -1) =>
                \E c \in NewlyDead :
                    \/ aliens[a] = c
                    \/ (a = i /\ pc = "move" /\ c \in Exits(nodes, aliens[a]))
    /\ pc \in {"spawn", "move"} =>
          \A c \in NewlyDead :
              /\ nodes[c].alienid \in DOMAIN aliens
              /\ aliens[nodes[c].alienid] = c
              /\ pc = "move" => Placed(i)

RemovedNotRecorded ==
    \A c \in DOMAIN nodes :
        (~ nodes[c].dead /\ nodes[c].alienid # -1) =>
            (nodes[c].alienid \in DOMAIN aliens /\ Placed(nodes[c].alienid))

AlienLifecycle ==
    /\ [][AlienLifecycleStep]_vars
    /\ []RemovedNotRecorded

\* Two aliens were removed at spawn and a third one had turns in two rounds.
AlienLifecycleWitness ==
    /\ pc = "move"
    /\ r >= 1
    /\ i = numaliens
    /\ Cardinality(DeadCities(nodes)) = 1
    /\ Cardinality(PlacedAliens) = 1
    /\ \E a \in PlacedAliens : a >= 2 /\ nodes[aliens[a]].alienid = a /\ Exits(nodes, aliens[a]) # {}

(***************************************************************************)
(* C23: the consistency check of the movement phase never fires. No run    *)
(* ends with the "Simulator has a bug" diagnostic: whenever the direction  *)
(* probe returns a direction, the destination it leaves is an existing     *)
(* city that is not destroyed, for every alien, table and drawn direction. *)
(***************************************************************************)
ProbeIsConsistent ==
    (pc = "move" /\ i < numaliens /\ Placed(i)) =>
        \A tryDirection \in 0..3 :
            LET probe == ProbeDirection(nodes, nodes[aliens[i]], tryDirection, 0)
            IN  probe.chosenDirection # -1 =>
                    /\ probe.destCityIndex = nodes[aliens[i]].roads[probe.chosenDirection]
                    /\ ValidRoad(nodes, probe.destCityIndex)

MoveAssertionNeverFires ==
    /\ outcome # "SimulatorBug"
    /\ ProbeIsConsistent

\* An alien is about to move from a city with a road to a destroyed city and
\* a road to a city that is not destroyed.
MoveAssertionWitness ==
    /\ pc = "move"
    /\ i < numaliens
    /\ Placed(i)
    /\ Exits(nodes, aliens[i]) # {}
    /\ \E dd \in 0..3 :
          /\ nodes[aliens[i]].roads[dd] # -1
          /\ nodes[nodes[aliens[i]].roads[dd]].dead

(***************************************************************************)
(* C24: occupancy cache consistency. After every spawn step and every      *)
(* alien turn, for every alien a and every city c that is not destroyed,   *)
(* the occupancy slot of c holds a if and only if the current city of a is *)
(* c.                                                                      *)
(***************************************************************************)
OccupancyCacheConsistent ==
    \A a \in DOMAIN aliens : \A c \in DOMAIN nodes :
        ~ nodes[c].dead => (nodes[c].alienid = a <=> aliens[a] = c)

\* Two aliens are placed in the second round, after two others destroyed a
\* city.
OccupancyCacheWitness ==
    /\ pc = "move"
    /\ r >= 1
    /\ i >= 1
    /\ Placed(i - 1)
    /\ Cardinality(PlacedAliens) >= 2
    /\ DeadCities(nodes) # {}
    /\ \E c \in DeadCities(nodes) : nodes[c].alienid # -1

(***************************************************************************)
(* C25: live counter accuracy. After every spawn step and every alien      *)
(* turn, liveAlienCounter is the number of aliens that have a current      *)
(* city, it is never negative, and the early-stop test of the round loop   *)
(* is true exactly when no alien is placed.                                *)
(***************************************************************************)
LiveCounterAccurate ==
    /\ liveAlienCounter = Cardinality(PlacedAliens)
    /\ liveAlienCounter >= 0
    /\ StopEarly(liveAlienCounter) <=> (PlacedAliens = {})

\* One alien of three is left in the second round, after a collision.
LiveCounterWitness ==
    /\ pc = "move"
    /\ r >= 1
    /\ liveAlienCounter = 1
    /\ Cardinality(DeadCities(nodes)) = 1
    /\ numaliens = 3

(***************************************************************************)
(* C26: parity. In every state the number of aliens whose spawn step was   *)
(* taken, less the number of placed aliens, is twice the number of         *)
(* destroyed cities. So when N is odd and spawning is complete, an alien   *)
(* is placed in every later state, the round loop is never left early, and *)
(* it is left, and the result written, only after all MaxRounds rounds.    *)
(***************************************************************************)
\* The aliens whose spawn step was taken.
SpawnAttempts ==
    CASE pc \in {"read", "resolve"}        -> 0
      [] pc = "spawn"                      -> i
      [] pc \in {"round", "move", "write"} -> numaliens
      [] pc = "done" -> IF outcome = "Written" THEN numaliens
                        ELSE IF outcome \in LoaderErrors THEN 0
                        ELSE i

ParityState ==
    /\ SpawnAttempts - Cardinality(PlacedAliens) = 2 * Cardinality(DeadCities(nodes))
    /\ (numaliens % 2 = 1 /\ SpawnComplete) =>
          /\ PlacedAliens # {}
          /\ outcome \in {"running", "Written"}
          /\ (pc = "write" \/ outcome = "Written") => r = MaxRounds

ParityStep ==
    (numaliens % 2 = 1 /\ pc = "round" /\ pc' = "write") => r = MaxRounds

Parity ==
    /\ []ParityState
    /\ [][ParityStep]_vars

\* An odd number of aliens, two of them removed, ran all rounds.
ParityWitness ==
    /\ numaliens = 3
    /\ outcome = "Written"
    /\ r = MaxRounds
    /\ Cardinality(DeadCities(nodes)) = 1
    /\ Cardinality(PlacedAliens) = 1

(***************************************************************************)
(* C27: trapped is permanent. A placed alien that, in the movement phase,  *)
(* has no road to a city that is not destroyed stays in its city and stays *)
(* placed in every later step: no other alien moves into its city.         *)
(***************************************************************************)
Trapped(a) == Placed(a) /\ Exits(nodes, aliens[a]) = {}

TrappedStaysStep ==
    \A a \in DOMAIN aliens :
        (pc \in {"round", "move"} /\ Trapped(a)) => aliens'[a] = aliens[a]

TrappedIsPermanent == [][TrappedStaysStep]_vars

(***************************************************************************)
(* C30: when WorldExhausted is reported for alien i, every city of the     *)
(* table is destroyed, no alien is placed, and i is at least twice the     *)
(* number of cities (it is exactly that); so on a table with cities        *)
(* WorldExhausted is not reported when N is at most twice their number.    *)
(***************************************************************************)
WorldExhaustedMeansAllDead ==
    (outcome = "WorldExhausted") =>
        /\ len(nodes) > 0
        /\ DeadCities(nodes) = DOMAIN nodes
        /\ PlacedAliens = {}
        /\ i >= 2 * len(nodes)
        /\ i = 2 * len(nodes)
        /\ numaliens > 2 * len(nodes)

\* The third alien found the only city destroyed by the first two.
WorldExhaustedWitness ==
    /\ outcome = "WorldExhausted"
    /\ pc = "done"
    /\ i = 2
    /\ len(nodes) = 1
    /\ nodes[0].dead

(***************************************************************************)
(* C28: the result file is a valid input. For every run that writes a      *)
(* result, the parser accepts the written lines, and the table it resolves *)
(* has exactly the cities that are not destroyed, in the same order, with  *)
(* exactly the roads between them.                                         *)
(***************************************************************************)
ResultReloads ==
    (outcome = "Written") =>
        LET t == Load(result)
        IN  /\ t.err = "none"
            /\ len(t.nodes) = Cardinality(LiveCities(nodes))
            /\ \A c \in LiveCities(nodes) :
                  LET k == LineNumber(nodes, c) - 1
                  IN  /\ t.nodes[k].cityName = nodes[c].cityName
                      /\ \A dd \in 0..3 :
                            t.nodes[k].roads[dd] =
                                IF SurvivingRoad(nodes, c, dd)
                                THEN LineNumber(nodes, nodes[c].roads[dd]) - 1
                                ELSE -1

(***************************************************************************)
(* C29: generator output is loadable. For every grid size and every        *)
(* outcome of the draws, the file that generate() writes has pairwise      *)
(* distinct city names, each the name of a cell of the grid, and every     *)
(* item of a line is east= or south= followed by the name of the cell next *)
(* to it in that direction, which has a line of its own; the parser        *)
(* accepts the file without error, and the table it resolves has one city  *)
(* per line, is symmetric and holds exactly the declared roads and their   *)
(* reciprocals.                                                            *)
(***************************************************************************)
GeneratedFileStep ==
    (pc = "gen" /\ pc' = "generated") =>
        /\ \A k1, k2 \in 1..Len(file') : k1 # k2 => file'[k1][1] # file'[k2][1]
        /\ \A k \in 1..Len(file') :
              \E c \in Cells(call.maxx, call.maxy) :
                  /\ file'[k][1] = CityNameAt(c[1], c[2])
                  /\ \A j \in 2..Len(file'[k]) :
                        /\ \/ /\ file'[k][j] = <<"east", CityNameAt(c[1] + 1, c[2])>>
                              /\ c[1] + 1 < call.maxx
                           \/ /\ file'[k][j] = <<"south", CityNameAt(c[1], c[2] + 1)>>
                              /\ c[2] + 1 < call.maxy
                        /\ file'[k][j][2] \in FileNames(file')

GeneratedFileLoads ==
    /\ outcome \notin LoaderErrors
    /\ pc = "spawn" =>
          /\ len(nodes) = Len(file)
          /\ \A a \in DOMAIN nodes : nodes[a].cityName = file[a + 1][1]
          /\ \A a, b \in DOMAIN nodes : \A dd \in 0..3 :
                /\ nodes[a].roads[dd] = b => nodes[b].roads[Opposite(dd)] = a
                /\ nodes[a].roads[dd] = b <=>
                      \/ Declares(file, nodes[a].cityName, dd, nodes[b].cityName)
                      \/ Declares(file, nodes[b].cityName, Opposite(dd), nodes[a].cityName)
          /\ \A a \in DOMAIN nodes : \A dd \in 0..3 :
                nodes[a].roads[dd] \in DOMAIN nodes \cup {-1}

GeneratorOutputLoadable ==
    /\ [][GeneratedFileStep]_vars
    /\ []GeneratedFileLoads

\* The full grid with all of its roads was generated and loaded.
GeneratorOutputWitness ==
    /\ pc = "spawn"
    /\ len(nodes) = MaxGrid * MaxGrid
    /\ nodes[0].roads[EAST] # -1
    /\ nodes[0].roads[SOUTH] # -1
    /\ nodes[len(nodes) - 1].roads[WEST] # -1
    /\ nodes[len(nodes) - 1].roads[NORTH] # -1

(***************************************************************************)
(* C22: numeric argument validation. On a generation command line with the *)
(* right number of arguments, if one of MAXX, MAXY, CITY_DENSITY and       *)
(* ROAD_DENSITY is not a number, main() ends with the parse diagnostic and *)
(* the help text and generate() is never entered, so no map file is        *)
(* written; on a simulation command line the same holds for NUMALIENS and  *)
(* simulate().                                                             *)
(***************************************************************************)
GenArgsNotNumeric ==
    /\ Len(args) = 6
    /\ args[1] = GenCommand
    /\ \/ Atoi(args[3]).err
       \/ Atoi(args[4]).err
       \/ ParseFloat(args[5]).err
       \/ ParseFloat(args[6]).err

SimArgsNotNumeric ==
    /\ Len(args) = 2
    /\ args[1] # <<>>
    /\ args[1][1] # "-"
    /\ Atoi(args[2]).err

NumericArgsValidated ==
    /\ GenArgsNotNumeric =>
          /\ pc \in {"main", "done"}
          /\ call.fn = "none"
          /\ pc = "done" => outcome = "GenParseError"
    /\ SimArgsNotNumeric =>
          /\ pc \in {"main", "done"}
          /\ call.fn = "none"
          /\ pc = "done" => outcome = "SimParseError"
====
